---- MODULE Spec2Model ----
(***************************************************************************)
(* A model of asl.py: the caption-to-sign-video script.                    *)
(*                                                                         *)
(* Every caption word becomes one task of a thread pool                    *)
(* (process_subtitle_data -> attempt_download_video).  The main thread     *)
(* waits for the futures in submission order, keeps the truthy results in  *)
(* video_paths, sorts them by the number in the file name and hands them   *)
(* to batch_concatenate_clips.                                             *)
(*                                                                         *)
(* Text (words, file names) is a sequence of one-character strings, so     *)
(* that normalisation, the f-string that builds a file name and the        *)
(* regular expression that reads the index back are modelled by what they  *)
(* do.  Python's None is the empty sequence: it is falsy, like the empty   *)
(* list a failed service call yields.                                      *)
(***************************************************************************)
EXTENDS Integers, Sequences, FiniteSets, TLC

\* ------------------------------------------------------------------------
\* Bounds of the model
\* ------------------------------------------------------------------------

\* Longest caption of the pipeline specification.
MaxTokens == 2

\* Longest clip list handed to batch_concatenate_clips in AsmSpec.
MaxClips == 25

\* Largest batch_size handed to batch_concatenate_clips in AsmSpec.
MaxBatchSize == 10

\* ------------------------------------------------------------------------
\* Text
\* ------------------------------------------------------------------------

None == << >>

W_Run     == <<"R", "u", "n">>
W_run     == <<"r", "u", "n">>
W_running == <<"r", "u", "n", "n", "i", "n", "g">>
W_glad    == <<"g", "l", "a", "d">>
W_joyful  == <<"j", "o", "y", "f", "u", "l">>
W_content == <<"c", "o", "n", "t", "e", "n", "t">>

\* Caption words the tokenizer may deliver (line.split(): no blanks inside).
RawWords == {W_Run, W_running}

DigitChars == <<"0", "1", "2", "3", "4", "5", "6", "7", "8", "9">>

IsDigit(c) == \E d \in 1..10 : DigitChars[d] = c

DigitVal(c) == (CHOOSE d \in 1..10 : DigitChars[d] = c) - 1

\* str.lower() on one character (the upper-case letters of RawWords).
LowerChar(c) == IF c = "R" THEN "r" ELSE c

RECURSIVE RemoveSpaces(_)
\* word.replace(" ", "")
RemoveSpaces(s) ==
    IF s = << >> THEN << >>
    ELSE IF Head(s) = " " THEN RemoveSpaces(Tail(s))
    ELSE <<Head(s)>> \o RemoveSpaces(Tail(s))

Lower(s) == [k \in 1..Len(s) |-> LowerChar(s[k])]

\* word.replace(" ", "").lower()
Normalize(word) == Lower(RemoveSpaces(word))

RECURSIVE Decimal(_)
\* The decimal digits of a natural number.
Decimal(n) ==
    IF n < 10 THEN <<DigitChars[n + 1]>>
    ELSE Decimal(n \div 10) \o <<DigitChars[(n % 10) + 1]>>

RECURSIVE ZeroPad(_, _)
ZeroPad(s, width) == IF Len(s) >= width THEN s ELSE ZeroPad(<<"0">> \o s, width)

\* f"{order:05d}"
Format05d(order) == ZeroPad(Decimal(order), 5)

\* f"{batch_number:03d}"
Format03d(n) == ZeroPad(Decimal(n), 3)

\* os.getcwd() + "/" : a working directory whose name holds a digit.
Cwd == <<"/", "h", "2", "/">>

VideosDir == <<"v", "i", "d", "e", "o", "s", "/">>

DotMp4 == <<".", "m", "p", "4">>

\* A download path named after the word alone: f"videos/{word}.mp4"
DownloadPathByWord(order, word) == Cwd \o VideosDir \o word \o DotMp4

\* os.path.join(os.getcwd(), f"videos/{order:05d}_{word}.mp4")
DownloadPath(order, word) ==
    Cwd \o VideosDir \o Format05d(order) \o <<"_">> \o word \o DotMp4

\* input_path + ".temp.mp4"
TempPath(input_path) == input_path \o <<".", "t", "e", "m", "p">> \o DotMp4

\* "concatenated_video.mp4"
OutputPath ==
    <<"c", "o", "n", "c", "a", "t", "e", "n", "a", "t", "e", "d", "_",
      "v", "i", "d", "e", "o">> \o DotMp4

\* f"{output_path}_batch{batch_number:03d}.mp4"
BatchOutputPath(output_path, n) ==
    output_path \o <<"_", "b", "a", "t", "c", "h">> \o Format03d(n) \o DotMp4

\* os.path.basename(x): what follows the last "/".
Basename(path) ==
    LET slashes == {k \in 1..Len(path) : path[k] = "/"}
        last == IF slashes = {} THEN 0
                ELSE CHOOSE k \in slashes : \A j \in slashes : j <= k
    IN SubSeq(path, last + 1, Len(path))

\* re.search(r'\d+', s).group(): the leftmost maximal run of digits
\* (None when s has no digit).
FirstDigitRun(s) ==
    LET digits == {k \in 1..Len(s) : IsDigit(s[k])}
    IN IF digits = {} THEN None
       ELSE LET first == CHOOSE k \in digits : \A j \in digits : k <= j
                stops == {k \in first..Len(s) : ~IsDigit(s[k])}
                last  == IF stops = {} THEN Len(s)
                         ELSE (CHOOSE k \in stops : \A j \in stops : k <= j) - 1
            IN SubSeq(s, first, last)

RECURSIVE ParseInt(_)
\* int(digits)
ParseInt(digits) ==
    IF digits = << >> THEN 0
    ELSE 10 * ParseInt(SubSeq(digits, 1, Len(digits) - 1))
         + DigitVal(digits[Len(digits)])

\* key=lambda x: int(re.search(r'\d+', os.path.basename(x)).group())
SortKey(x) == ParseInt(FirstDigitRun(Basename(x)))

\* list.sort(reverse=True) in place of list.sort(): the order a wrong sort gives.
SortedDescending(paths) ==
    LET RECURSIVE Ins(_, _)
        Ins(sorted, x) ==
            LET before == {k \in 1..Len(sorted) : SortKey(sorted[k]) >= SortKey(x)}
                n == Cardinality(before)
            IN SubSeq(sorted, 1, n) \o <<x>> \o SubSeq(sorted, n + 1, Len(sorted))
        RECURSIVE Go(_, _)
        Go(done, rest) == IF rest = << >> THEN done
                          ELSE Go(Ins(done, Head(rest)), Tail(rest))
    IN Go(<< >>, paths)

\* video_paths.sort(key=SortKey): a stable sort, ascending in the key.
SortedByIndex(paths) ==
    LET RECURSIVE Ins(_, _)
        Ins(sorted, x) ==
            LET before == {k \in 1..Len(sorted) : SortKey(sorted[k]) <= SortKey(x)}
                n == Cardinality(before)
            IN SubSeq(sorted, 1, n) \o <<x>> \o SubSeq(sorted, n + 1, Len(sorted))
        RECURSIVE Go(_, _)
        Go(done, rest) == IF rest = << >> THEN done
                          ELSE Go(Ins(done, Head(rest)), Tail(rest))
    IN Go(<< >>, paths)

\* ------------------------------------------------------------------------
\* The lexicon (asl_videos.json, read once, never written)
\* ------------------------------------------------------------------------

\* item.get("start_time") / item.get("end_time") of an entry without that field.
NoTime == -1

\* "run" has three entries, the second one without a url; "glad" and
\* "content" have one entry each.
asl_data ==
    << [clean_text |-> W_run, url |-> <<"u", "1">>, start_time |-> 0, end_time |-> 2],
       [clean_text |-> W_run, url |-> None, start_time |-> 0, end_time |-> 2],
       [clean_text |-> W_run, url |-> <<"u", "3">>, start_time |-> 4, end_time |-> 6],
       [clean_text |-> W_glad, url |-> <<"u", "4">>, start_time |-> 1, end_time |-> 3],
       [clean_text |-> W_content, url |-> <<"u", "5">>, start_time |-> 0, end_time |-> 1] >>

\* [entry for entry in asl_data if entry.get("clean_text") == word_to_check]
check_word_in_asl_data(word_to_check) ==
    SelectSeq(asl_data, LAMBDA entry : entry.clean_text = word_to_check)

\* if url and start_time is not None and end_time is not None
HasUrlAndSpan(item) ==
    /\ item.url # None
    /\ item.start_time # NoTime
    /\ item.end_time # NoTime

\* The for loop without the url/start/end test: the next entry, usable or not.
NextCandidateAnyEntry(word_occurrences, c) ==
    IF c <= Len(word_occurrences) THEN c ELSE 0

\* The for loop over word_occurrences: the first entry at or after position c
\* that passes the url/start/end test (0 when the loop runs out).
NextCandidate(word_occurrences, c) ==
    LET usable == {k \in c..Len(word_occurrences) : HasUrlAndSpan(word_occurrences[k])}
    IN IF usable = {} THEN 0 ELSE CHOOSE k \in usable : \A j \in usable : k <= j

\* ------------------------------------------------------------------------
\* The external services, as the answers they may give
\* ------------------------------------------------------------------------

\* nlp(word)[0].lemma_ : the word itself (no change) or "run".
BaseFormAnswers(word) == {word, W_run}

\* get_base_form has no try/except: what stands for an exception raised by
\* nlp(word) in place of an answer.
Raises == <<"!">>

\* What a call of get_base_form may end with.
BaseFormOutcomes(word) == BaseFormAnswers(word) \cup {Raises}

\* The synonym service's JSON answer to rel_syn=word, as the list of its
\* "word" fields: empty (also after a caught RequestException), two synonyms,
\* one synonym that is no lexicon key, or the word itself.
PlainAnswers(word) == {<< >>, <<W_glad, W_joyful>>, <<W_joyful>>, <<word>>}

\* The service's answer to the same query with &lc= / &rc= context.
ContextualAnswers == {<< >>, <<W_content>>}

\* get_synonym, given the two answers of the service.  The contextual query
\* is issued only when prev_word or next_word is truthy.
get_synonym(word, prev_word, next_word, synonyms, contextual_synonyms) ==
    IF synonyms = << >> THEN word
    ELSE IF (prev_word # None \/ next_word # None) /\ contextual_synonyms # << >>
         THEN contextual_synonyms[1]
         ELSE synonyms[1]

\* Whether get_synonym sends the contextual query.
IssuesContextualQuery(prev_word, next_word, synonyms) ==
    synonyms # << >> /\ (prev_word # None \/ next_word # None)

\* ------------------------------------------------------------------------
\* State
\* ------------------------------------------------------------------------

VARIABLES
    subtitle_data,      \* the caption words, in caption order
    batch_size,         \* batch_size of batch_concatenate_clips
    mpc,                \* where the main thread is
    task_step,          \* task_step[idx]: where the task of word idx is
    call_stack,         \* call_stack[idx]: the frames of attempt_download_video
    cand,               \* cand[idx]: position of the for loop in word_occurrences
    future_result,      \* future_result[idx]: value of the finished future
    log,                \* log[idx]: what the task has called and looked up
    completed,          \* the indices of the finished tasks, in finishing order
    files,              \* the paths that exist on disk
    collected,          \* number of futures the main thread has waited for
    video_paths,        \* video_paths of __main__
    batch_number,       \* batch_number of batch_concatenate_clips
    batch_clips,        \* batch_clips: each clip is the sequence of its sources
    batch_video_paths,  \* batch_video_paths
    merge_calls,        \* the argument of every concatenate_videoclips call
    final_clip          \* the clip written to output_path (None before)

vars == <<subtitle_data, batch_size, mpc, task_step, call_stack, cand,
          future_result, log, completed, files, collected, video_paths, batch_number,
          batch_clips, batch_video_paths, merge_calls, final_clip>>

taskVars == <<task_step, call_stack, cand, future_result, log, completed>>

asmVars == <<batch_number, batch_clips, batch_video_paths, merge_calls, final_clip>>

\* batch_size = 10 in __main__
BATCH_SIZE == 10

NumTokens == Len(subtitle_data)

\* enumerate(subtitle_data): idx runs from 0
Indices == 0..(NumTokens - 1)

WordAt(idx) == subtitle_data[idx + 1]

Top(stack) == stack[Len(stack)]

\* Depth of the running call of attempt_download_video (0: called by
\* process_subtitle_data).
Depth(idx) == Len(call_stack[idx]) - 1

Frame(word, prev_word, next_word, is_base_form, is_synonym) ==
    [word |-> word, prev_word |-> prev_word, next_word |-> next_word,
     is_base_form |-> is_base_form, is_synonym |-> is_synonym]

\* process_subtitle_data without .lower(): the word keeps its capitals.
process_subtitle_data_NoLower(word) ==
    Frame(RemoveSpaces(word), None, None, FALSE, FALSE)

\* process_subtitle_data: normalise, then call attempt_download_video with the
\* defaults prev_word=None, next_word=None, is_base_form=False, is_synonym=False.
process_subtitle_data(word) ==
    Frame(Normalize(word), None, None, FALSE, FALSE)

EmptyLog ==
    [attempts |-> << >>, lookups |-> 0, base_calls |-> 0, syn_calls |-> 0,
     ctx_calls |-> 0, syn |-> << >>, key |-> None, via |-> "NONE",
     tried |-> << >>]

\* The strategy a frame's word came from.
StrategyOf(frame) ==
    IF frame.is_base_form /\ frame.is_synonym THEN "BASE_OF_SYNONYM"
    ELSE IF frame.is_base_form THEN "BASE_FORM"
    ELSE IF frame.is_synonym THEN "SYNONYM"
    ELSE "EXACT"

Attempt(strategy, key, depth) == [strategy |-> strategy, key |-> key, depth |-> depth]

Min(a, b) == IF a <= b THEN a ELSE b

\* ------------------------------------------------------------------------
\* Initial states
\* ------------------------------------------------------------------------

RECURSIVE SeqsUpTo(_, _)
\* The sequences over S of length 0..n.
SeqsUpTo(S, n) ==
    IF n = 0 THEN {<< >>}
    ELSE LET shorter == SeqsUpTo(S, n - 1)
         IN shorter \cup {Append(s, x) : s \in {t \in shorter : Len(t) = n - 1}, x \in S}

\* __main__ up to line 199: the caption is read, nothing is submitted yet.
Init ==
    /\ subtitle_data \in SeqsUpTo(RawWords, MaxTokens)
    /\ batch_size = BATCH_SIZE
    /\ mpc = "start"
    /\ task_step = [idx \in Indices |-> "new"]
    /\ call_stack = [idx \in Indices |-> << >>]
    /\ cand = [idx \in Indices |-> 0]
    /\ future_result = [idx \in Indices |-> None]
    /\ log = [idx \in Indices |-> EmptyLog]
    /\ completed = << >>
    /\ files = {}
    /\ collected = 0
    /\ video_paths = << >>
    /\ batch_number = 0
    /\ batch_clips = << >>
    /\ batch_video_paths = << >>
    /\ merge_calls = << >>
    /\ final_clip = None

\* ------------------------------------------------------------------------
\* A task: process_subtitle_data(word, asl_data, idx) on a pool thread
\* ------------------------------------------------------------------------

\* "if base_word_occurrences:" ignoring the lookup: recursing on any word.
RecursesOnAnyWord(candidate, occurrences) == candidate # None

\* "if not base_word_occurrences:" : the test the wrong way round.
RecursesWhenMissing(candidate, occurrences) == occurrences = << >>

\* "if base_word_occurrences:" / "if synonym_occurrences:" /
\* "if base_word_of_synonym_occurrences:" : the recursive call is made only
\* with a word the lexicon holds.
Recurses(candidate, occurrences) == occurrences # << >>

\* return <value> from the whole chain of calls (every recursive call is a
\* "return attempt_download_video(...)").
Return(idx, value) ==
    /\ task_step' = [task_step EXCEPT ![idx] = "done"]
    /\ future_result' = [future_result EXCEPT ![idx] = value]

\* The future of a task is done in the step in which the task returns or
\* raises.
Finishes(idx) ==
    completed' = IF task_step'[idx] \in {"done", "raised"} THEN Append(completed, idx)
                 ELSE completed

\* A for loop that, when it runs out of entries, goes on with the fallback
\* block in place of returning None.
LoopFromThenFallBack(idx, c) ==
    IF c = 0
    THEN /\ task_step' = [task_step EXCEPT ![idx] = "base"]
         /\ UNCHANGED <<cand, future_result>>
    ELSE /\ task_step' = [task_step EXCEPT ![idx] = "download"]
         /\ cand' = [cand EXCEPT ![idx] = c]
         /\ UNCHANGED future_result

\* Go on with the for loop at position c (0: the loop is over, return None).
LoopFrom(idx, c) ==
    IF c = 0
    THEN /\ Return(idx, None)
         /\ UNCHANGED cand
    ELSE /\ task_step' = [task_step EXCEPT ![idx] = "download"]
         /\ cand' = [cand EXCEPT ![idx] = c]
         /\ UNCHANGED future_result

\* Lines 88-90 and 108: word_occurrences = check_word_in_asl_data(word); with a
\* match the for loop starts, without one the fallback block is entered.
Lookup(idx) ==
    /\ task_step[idx] = "lookup"
    /\ LET frame == Top(call_stack[idx])
           word_occurrences == check_word_in_asl_data(frame.word)
           tried == IF Depth(idx) = 0
                    THEN Append(log[idx].attempts, Attempt("EXACT", frame.word, 0))
                    ELSE log[idx].attempts
       IN IF word_occurrences # << >>
          THEN /\ log' = [log EXCEPT ![idx] =
                             [@ EXCEPT !.attempts = tried, !.lookups = @ + 1,
                                       !.key = frame.word, !.via = StrategyOf(frame)]]
               /\ LoopFrom(idx, NextCandidate(word_occurrences, 1))
          ELSE /\ log' = [log EXCEPT ![idx] =
                             [@ EXCEPT !.attempts = tried, !.lookups = @ + 1]]
               /\ task_step' = [task_step EXCEPT ![idx] = "base"]
               /\ UNCHANGED <<cand, future_result>>
    /\ Finishes(idx)
    /\ UNCHANGED <<subtitle_data, batch_size, mpc, call_stack, files, collected,
                   video_paths, asmVars>>

\* Lines 91-95: the base form of the word, looked up in the lexicon.
TryBaseForm(idx) ==
    /\ task_step[idx] = "base"
    /\ LET frame == Top(call_stack[idx])
       IN IF ~frame.is_base_form
          THEN \E base_word \in BaseFormOutcomes(frame.word) :
                 LET base_word_occurrences == check_word_in_asl_data(base_word)
                 IN IF base_word = Raises
                    THEN /\ log' = [log EXCEPT ![idx] = [@ EXCEPT !.base_calls = @ + 1]]
                         /\ task_step' = [task_step EXCEPT ![idx] = "raised"]
                         /\ UNCHANGED call_stack
                    ELSE
                    /\ log' = [log EXCEPT ![idx] =
                                  [@ EXCEPT !.attempts = Append(@,
                                                Attempt("BASE_FORM", base_word, Depth(idx))),
                                            !.lookups = @ + 1,
                                            !.base_calls = @ + 1]]
                    /\ IF Recurses(base_word, base_word_occurrences)
                       THEN /\ call_stack' = [call_stack EXCEPT ![idx] = Append(@,
                                   Frame(base_word, frame.prev_word, frame.next_word,
                                         TRUE, FALSE))]
                            /\ task_step' = [task_step EXCEPT ![idx] = "lookup"]
                       ELSE /\ task_step' = [task_step EXCEPT ![idx] = "syn"]
                            /\ UNCHANGED call_stack
          ELSE /\ task_step' = [task_step EXCEPT ![idx] = "syn"]
               /\ UNCHANGED <<log, call_stack>>
    /\ Finishes(idx)
    /\ UNCHANGED <<subtitle_data, batch_size, mpc, cand, future_result, files,
                   collected, video_paths, asmVars>>

\* Lines 96-106: the synonym of the word; for a word that is itself a synonym,
\* the base form of it; then return None.
TrySynonym(idx) ==
    /\ task_step[idx] = "syn"
    /\ LET frame == Top(call_stack[idx])
       IN IF ~frame.is_synonym
          THEN \E synonyms \in PlainAnswers(frame.word),
                  contextual_synonyms \in ContextualAnswers :
                 LET synonym == get_synonym(frame.word, frame.prev_word,
                                            frame.next_word, synonyms,
                                            contextual_synonyms)
                     asked == IssuesContextualQuery(frame.prev_word,
                                                    frame.next_word, synonyms)
                     synonym_occurrences == check_word_in_asl_data(synonym)
                 IN /\ log' = [log EXCEPT ![idx] =
                                  [@ EXCEPT !.attempts = Append(@,
                                                Attempt("SYNONYM", synonym, Depth(idx))),
                                            !.lookups = @ + 1,
                                            !.syn_calls = @ + 1,
                                            !.ctx_calls = @ + (IF asked THEN 1 ELSE 0),
                                            !.syn = <<[plain |-> synonyms,
                                                       contextual |-> contextual_synonyms,
                                                       candidate |-> synonym]>>]]
                    /\ IF Recurses(synonym, synonym_occurrences)
                       THEN /\ call_stack' = [call_stack EXCEPT ![idx] = Append(@,
                                   Frame(synonym, frame.prev_word, frame.next_word,
                                         FALSE, TRUE))]
                            /\ task_step' = [task_step EXCEPT ![idx] = "lookup"]
                            /\ UNCHANGED future_result
                       ELSE /\ Return(idx, None)
                            /\ UNCHANGED call_stack
          ELSE IF ~frame.is_base_form
          THEN \E base_word_of_synonym \in BaseFormOutcomes(frame.word) :
                 LET base_word_of_synonym_occurrences ==
                         check_word_in_asl_data(base_word_of_synonym)
                 IN IF base_word_of_synonym = Raises
                    THEN /\ log' = [log EXCEPT ![idx] = [@ EXCEPT !.base_calls = @ + 1]]
                         /\ task_step' = [task_step EXCEPT ![idx] = "raised"]
                         /\ UNCHANGED <<call_stack, future_result>>
                    ELSE
                    /\ log' = [log EXCEPT ![idx] =
                                  [@ EXCEPT !.attempts = Append(@,
                                                Attempt("BASE_OF_SYNONYM",
                                                        base_word_of_synonym, Depth(idx))),
                                            !.lookups = @ + 1,
                                            !.base_calls = @ + 1]]
                    /\ IF Recurses(base_word_of_synonym, base_word_of_synonym_occurrences)
                       THEN /\ call_stack' = [call_stack EXCEPT ![idx] = Append(@,
                                   Frame(base_word_of_synonym, frame.prev_word,
                                         frame.next_word, TRUE, TRUE))]
                            /\ task_step' = [task_step EXCEPT ![idx] = "lookup"]
                            /\ UNCHANGED future_result
                       ELSE /\ Return(idx, None)
                            /\ UNCHANGED call_stack
          ELSE /\ Return(idx, None)
               /\ UNCHANGED <<log, call_stack>>
    /\ Finishes(idx)
    /\ UNCHANGED <<subtitle_data, batch_size, mpc, cand, files, collected,
                   video_paths, asmVars>>

\* Lines 109-117: download_youtube_video(url, download_path) for the entry the
\* loop is at.  It returns True with the file written, or False; a download
\* that fails half-way may leave what it has written at download_path.
Download(idx) ==
    /\ task_step[idx] = "download"
    /\ LET frame == Top(call_stack[idx])
           word_occurrences == check_word_in_asl_data(frame.word)
           download_path == DownloadPath(idx, frame.word)
       IN \E downloaded \in BOOLEAN, partial \in BOOLEAN :
            IF downloaded
            THEN /\ files' = files \cup {download_path}
                 /\ task_step' = [task_step EXCEPT ![idx] = "process"]
                 /\ UNCHANGED <<cand, future_result>>
            ELSE /\ LoopFrom(idx, NextCandidate(word_occurrences, cand[idx] + 1))
                 /\ files' = IF partial THEN files \cup {download_path} ELSE files
    /\ log' = [log EXCEPT ![idx] =
                  [@ EXCEPT !.tried = Append(@, [entry |-> cand[idx], acquired |-> FALSE])]]
    /\ Finishes(idx)
    /\ UNCHANGED <<subtitle_data, batch_size, mpc, call_stack, collected,
                   video_paths, asmVars>>

\* Lines 118-119: process_video(download_path, start_time, end_time).  On
\* success the clip written to temp_path has replaced the download
\* (os.replace) and the path is returned; on failure the download stays where
\* it is, temp_path may have been written, and the loop goes on.
Process(idx) ==
    /\ task_step[idx] = "process"
    /\ LET frame == Top(call_stack[idx])
           word_occurrences == check_word_in_asl_data(frame.word)
           download_path == DownloadPath(idx, frame.word)
           temp_path == TempPath(download_path)
       IN \E processed \in BOOLEAN, written \in BOOLEAN :
            IF processed
            THEN /\ Return(idx, download_path)
                 /\ files' = files \ {temp_path}
                 /\ log' = [log EXCEPT ![idx].tried[Len(log[idx].tried)].acquired = TRUE]
                 /\ UNCHANGED cand
            ELSE /\ LoopFrom(idx, NextCandidate(word_occurrences, cand[idx] + 1))
                 /\ files' = IF written THEN files \cup {temp_path} ELSE files
                 /\ UNCHANGED log
    /\ Finishes(idx)
    /\ UNCHANGED <<subtitle_data, batch_size, mpc, call_stack,
                   collected, video_paths, asmVars>>

\* ------------------------------------------------------------------------
\* The main thread
\* ------------------------------------------------------------------------

\* Lines 194-205: with a caption (the lexicon is not empty) one task per word
\* is submitted to the pool; without one the error is logged and the script
\* ends.  The default pool has at least five threads, more than MaxTokens:
\* every task may run at once.
Start ==
    /\ mpc = "start"
    /\ IF subtitle_data # << >> /\ asl_data # << >>
       THEN /\ mpc' = "collect"
            /\ task_step' = [idx \in Indices |-> "lookup"]
            /\ call_stack' = [idx \in Indices |-> <<process_subtitle_data(WordAt(idx))>>]
       ELSE /\ mpc' = "error"
            /\ UNCHANGED <<task_step, call_stack>>
    /\ UNCHANGED <<subtitle_data, batch_size, cand, future_result, log, completed, files,
                   collected, video_paths, asmVars>>

\* future.result() that returns at once, whether or not the task has finished.
FutureDoneOrNot(idx) == TRUE

\* The future of task idx has a result or an exception: future.result() does
\* not block.
FutureDone(idx) == task_step[idx] \in {"done", "raised"}

\* Lines 206-211: future.result() of the next future in submission order,
\* which blocks until that task is done; a truthy result is appended.  When
\* the task raised, future.result() raises the same exception in the main
\* thread, which leaves the loop.
Collect ==
    /\ mpc = "collect"
    /\ collected < NumTokens
    /\ FutureDone(collected)
    /\ IF task_step[collected] = "raised"
       THEN /\ mpc' = "raising"
            /\ UNCHANGED <<video_paths, collected>>
       ELSE /\ LET result == future_result[collected]
               IN video_paths' = IF result # None THEN Append(video_paths, result)
                                 ELSE video_paths
            /\ collected' = collected + 1
            /\ mpc' = IF collected + 1 = NumTokens THEN "sort" ELSE "collect"
    /\ UNCHANGED <<subtitle_data, batch_size, taskVars, files, asmVars>>

\* Line 201, leaving the with block on an exception: the executor waits for
\* every task (shutdown(wait=True)), then the exception ends the script.
Shutdown ==
    /\ mpc = "raising"
    /\ \A idx \in Indices : FutureDone(idx)
    /\ mpc' = "aborted"
    /\ UNCHANGED <<subtitle_data, batch_size, taskVars, files, collected,
                   video_paths, asmVars>>

\* Lines 213-217: video_paths.sort(key=...), then batch_concatenate_clips is
\* entered.  The key raises AttributeError on a name without a digit.
Sort ==
    /\ mpc = "sort"
    /\ IF \E k \in 1..Len(video_paths) : FirstDigitRun(Basename(video_paths[k])) = None
       THEN /\ mpc' = "crashed"
            /\ UNCHANGED video_paths
       ELSE /\ mpc' = "batch"
            /\ video_paths' = SortedByIndex(video_paths)
    /\ UNCHANGED <<subtitle_data, batch_size, taskVars, files, collected, asmVars>>

\* VideoFileClip(video): a clip is the sequence of the source files it plays.
VideoFileClip(video) == <<video>>

RECURSIVE concatenate_videoclips(_)
\* concatenate_videoclips(clips): the clips one after another.
concatenate_videoclips(clips) ==
    IF clips = << >> THEN << >>
    ELSE Head(clips) \o concatenate_videoclips(Tail(clips))

\* video_paths[i:i+batch_size-1]: a batch one clip short.
BatchOffByOne(paths, i, size) == SubSeq(paths, i + 1, Min(i + size - 1, Len(paths)))

\* video_paths[i:i+batch_size] (i counts from 0)
Batch(paths, i, size) == SubSeq(paths, i + 1, Min(i + size, Len(paths)))

\* Lines 172-180: one turn of the batch loop.  The merge/encode may raise,
\* which ends the script.
BatchStep ==
    /\ mpc = "batch"
    /\ batch_number * batch_size < Len(video_paths)
    /\ LET batch == Batch(video_paths, batch_number * batch_size, batch_size)
           clips == [k \in 1..Len(batch) |-> VideoFileClip(batch[k])]
           batch_output_path == BatchOutputPath(OutputPath, batch_number)
       IN /\ merge_calls' = Append(merge_calls, clips)
          /\ \E merged \in BOOLEAN :
               IF merged
               THEN /\ batch_clips' = Append(batch_clips, concatenate_videoclips(clips))
                    /\ batch_video_paths' = Append(batch_video_paths, batch_output_path)
                    /\ files' = files \cup {batch_output_path}
                    /\ batch_number' = batch_number + 1
                    /\ UNCHANGED mpc
               ELSE /\ mpc' = "crashed"
                    /\ UNCHANGED <<batch_clips, batch_video_paths, files, batch_number>>
    /\ UNCHANGED <<subtitle_data, batch_size, taskVars, collected, video_paths,
                   final_clip>>

\* Lines 181-183: the final merge of batch_clips, written to output_path.
\* concatenate_videoclips raises on an empty list, as it may on any input.
FinalMerge ==
    /\ mpc = "batch"
    /\ batch_number * batch_size >= Len(video_paths)
    /\ merge_calls' = Append(merge_calls, batch_clips)
    /\ \E merged \in BOOLEAN :
         IF merged /\ batch_clips # << >>
         THEN /\ final_clip' = concatenate_videoclips(batch_clips)
              /\ files' = files \cup {OutputPath}
              /\ mpc' = "cleanup"
         ELSE /\ mpc' = "crashed"
              /\ UNCHANGED <<final_clip, files>>
    /\ UNCHANGED <<subtitle_data, batch_size, taskVars, collected, video_paths,
                   batch_number, batch_clips, batch_video_paths>>

\* Lines 184-185: os.remove of every batch file.
Cleanup ==
    /\ mpc = "cleanup"
    /\ files' = files \ {batch_video_paths[k] : k \in 1..Len(batch_video_paths)}
    /\ mpc' = "rmtree"
    /\ UNCHANGED <<subtitle_data, batch_size, taskVars, collected, video_paths, asmVars>>

\* A path below <cwd>/videos/
InVideosDir(path) ==
    LET dir == Cwd \o VideosDir
    IN Len(path) > Len(dir) /\ SubSeq(path, 1, Len(dir)) = dir

\* Line 219: shutil.rmtree("videos")
Rmtree ==
    /\ mpc = "rmtree"
    /\ files' = {f \in files : ~InVideosDir(f)}
    /\ mpc' = "done"
    /\ UNCHANGED <<subtitle_data, batch_size, taskVars, collected, video_paths, asmVars>>

\* ------------------------------------------------------------------------
\* Specifications
\* ------------------------------------------------------------------------

Next ==
    \/ Start
    \/ \E idx \in Indices : Lookup(idx)
    \/ \E idx \in Indices : TryBaseForm(idx)
    \/ \E idx \in Indices : TrySynonym(idx)
    \/ \E idx \in Indices : Download(idx)
    \/ \E idx \in Indices : Process(idx)
    \/ Collect
    \/ Shutdown
    \/ Sort
    \/ BatchStep
    \/ FinalMerge
    \/ Cleanup
    \/ Rmtree

\* The whole script.
Spec == Init /\ [][Next]_vars

\* The log of a task that found its word in the lexicon at once.
ExactLog(word) ==
    [EmptyLog EXCEPT !.attempts = <<Attempt("EXACT", word, 0)>>, !.lookups = 1,
                     !.key = word, !.via = "EXACT",
                     !.tried = <<[entry |-> 1, acquired |-> TRUE]>>]

\* batch_concatenate_clips entered with n clips (every word of an n-word caption
\* was found and acquired) and any batch_size up to MaxBatchSize.
AsmInit ==
    \E n \in 0..MaxClips, size \in 1..MaxBatchSize :
      /\ subtitle_data = [k \in 1..n |-> W_Run]
      /\ batch_size = size
      /\ mpc = "batch"
      /\ task_step = [idx \in 0..(n - 1) |-> "done"]
      /\ call_stack = [idx \in 0..(n - 1) |-> <<process_subtitle_data(W_Run)>>]
      /\ cand = [idx \in 0..(n - 1) |-> 1]
      /\ future_result = [idx \in 0..(n - 1) |-> DownloadPath(idx, W_run)]
      /\ log = [idx \in 0..(n - 1) |-> ExactLog(W_run)]
      /\ completed = [k \in 1..n |-> k - 1]
      /\ files = {DownloadPath(idx, W_run) : idx \in 0..(n - 1)}
      /\ collected = n
      /\ video_paths = [k \in 1..n |-> DownloadPath(k - 1, W_run)]
      /\ batch_number = 0
      /\ batch_clips = << >>
      /\ batch_video_paths = << >>
      /\ merge_calls = << >>
      /\ final_clip = None

AsmNext ==
    \/ BatchStep
    \/ FinalMerge
    \/ Cleanup
    \/ Rmtree

\* batch_concatenate_clips and the rmtree after it, on lists of up to MaxClips
\* clips.
AsmSpec == AsmInit /\ [][AsmNext]_vars

\* ------------------------------------------------------------------------
\* Properties
\* ------------------------------------------------------------------------

Done(idx) == task_step[idx] = "done"

\* The normalised text of caption word idx.
NormalizedWord(idx) == Normalize(WordAt(idx))

InLexicon(word) == check_word_in_asl_data(word) # << >>

\* The main thread has left the collecting loop.
RunComplete == mpc \in {"sort", "batch", "cleanup", "rmtree", "done", "crashed"}

\* The main thread has sorted video_paths.
Sorted == mpc \in {"batch", "cleanup", "rmtree", "done", "crashed"}

RECURSIVE AcquiredFrom(_)
\* The paths the tasks idx, idx+1, ... returned, in index order.
AcquiredFrom(idx) ==
    IF idx >= NumTokens THEN << >>
    ELSE (IF future_result[idx] # None THEN <<future_result[idx]>> ELSE << >>)
         \o AcquiredFrom(idx + 1)

IsPrefix(a, b) == Len(a) <= Len(b) /\ SubSeq(b, 1, Len(a)) = a

\* C1: whatever the order in which the tasks finish, the clips handed to the
\* merge (and played by the final clip) are exactly the acquired clips in
\* strictly ascending caption index; the index read back from a file name is
\* the index of the task that wrote it.
C1_MergeOrderIsIndexOrder ==
    Sorted =>
      /\ video_paths = AcquiredFrom(0)
      /\ \A idx \in Indices :
           future_result[idx] # None => SortKey(future_result[idx]) = idx
      /\ \A j, k \in 1..Len(video_paths) :
           j < k => SortKey(video_paths[j]) < SortKey(video_paths[k])
      /\ IsPrefix(concatenate_videoclips(batch_clips), AcquiredFrom(0))
      /\ final_clip # None => final_clip = AcquiredFrom(0)

\* C1 witness: the second task finished first, both clips were acquired and
\* the final clip plays them in caption order.
C1_Witness ==
    /\ mpc = "done"
    /\ NumTokens = 2
    /\ completed = <<1, 0>>
    /\ final_clip = <<future_result[0], future_result[1]>>
    /\ future_result[0] # None /\ future_result[1] # None

\* The entries of video_paths that carry index idx.
RecordedFor(idx) == {k \in 1..Len(video_paths) : SortKey(video_paths[k]) = idx}

\* C2: once the run is complete there is exactly one recorded result per
\* caption word.
C2_OneResultPerToken ==
    RunComplete =>
      /\ Len(video_paths) = NumTokens
      /\ \A idx \in Indices : Cardinality(RecordedFor(idx)) = 1

\* A task that has been started and has not returned.
Running(idx) == task_step[idx] \in {"lookup", "base", "syn", "download", "process"}

TaskStep(idx) ==
    \/ Lookup(idx)
    \/ TryBaseForm(idx)
    \/ TrySynonym(idx)
    \/ Download(idx)
    \/ Process(idx)

C4_ExactMatchCallsNoService ==
    \A idx \in Indices :
      InLexicon(NormalizedWord(idx)) =>
        /\ log[idx].base_calls = 0
        /\ log[idx].syn_calls = 0
        /\ log[idx].ctx_calls = 0
        /\ task_step[idx] \in {"download", "process", "done"} =>
             /\ log[idx].key = NormalizedWord(idx)
             /\ log[idx].via = "EXACT"
             /\ Len(call_stack[idx]) = 1

\* C4 witness: "Run" was found as "run" and its clip acquired.
C4_Witness ==
    \E idx \in Indices :
      /\ WordAt(idx) = W_Run
      /\ Done(idx)
      /\ log[idx].via = "EXACT"
      /\ future_result[idx] = DownloadPath(idx, W_run)

\* A task that found a lexicon key and got no clip from any of its entries.
AcquisitionFailed(idx) == Done(idx) /\ log[idx].key # None /\ future_result[idx] = None

\* A task that found no lexicon key.
Unresolved(idx) == Done(idx) /\ log[idx].key = None

\* C5: the outcome of a word whose acquisition failed differs from the outcome
\* of an unresolved word, and neither word has a clip in the merge.
C5_FailedDistinctFromUnresolved ==
    /\ \A i, j \in Indices :
         AcquisitionFailed(i) /\ Unresolved(j) => future_result[i] # future_result[j]
    /\ \A idx \in Indices :
         AcquisitionFailed(idx) \/ Unresolved(idx) => RecordedFor(idx) = {}

\* The service calls a task has made.
ServiceCalls(idx) == log[idx].base_calls + log[idx].syn_calls + log[idx].ctx_calls

\* C6: of two finished tasks whose words have the same normalised text, only
\* one has called the services, and both were resolved to the same entry.
C6_ResolutionMemoized ==
    \A i, j \in Indices :
      i < j /\ NormalizedWord(i) = NormalizedWord(j) /\ Done(i) /\ Done(j) =>
        /\ ServiceCalls(i) = 0 \/ ServiceCalls(j) = 0
        /\ log[i].key = log[j].key

\* The batches merged so far: every concatenate_videoclips call but the final one.
BatchMerges ==
    IF final_clip # None THEN SubSeq(merge_calls, 1, Len(merge_calls) - 1)
    ELSE merge_calls

\* ceil(n / b)
CeilDiv(n, b) == (n + b - 1) \div b

\* C7: with n >= 1 clips and batch size b, once the final clip is written
\* there were ceil(n/b) batch merges, of b clips each but for a last one of at
\* most b (10, 10, 5 for 25 clips and b = 10), which taken in order are the
\* clip list; the final merge took the batch clips in batch order and its one
\* output plays the clip list; every batch file is on disk until the cleanup
\* and none is after it.
C7_BatchesPartitionClips ==
    final_clip # None /\ Len(video_paths) >= 1 =>
      LET n == Len(video_paths)
          b == batch_size
          batches == BatchMerges
          count == Len(batches)
      IN /\ count = CeilDiv(n, b)
         /\ \A k \in 1..count :
              /\ Len(batches[k]) <= b
              /\ Len(batches[k]) >= 1
              /\ k < count => Len(batches[k]) = b
         /\ concatenate_videoclips(batches)
              = [k \in 1..n |-> VideoFileClip(video_paths[k])]
         /\ n = 25 /\ b = 10 =>
              [k \in 1..count |-> Len(batches[k])] = <<10, 10, 5>>
         /\ merge_calls[Len(merge_calls)]
              = [k \in 1..count |-> concatenate_videoclips(batches[k])]
         /\ final_clip = video_paths
         /\ OutputPath \in files
         /\ Len(batch_video_paths) = count
         /\ \A k \in 0..(count - 1) :
              /\ batch_video_paths[k + 1] = BatchOutputPath(OutputPath, k)
              /\ BatchOutputPath(OutputPath, k) \in files <=> mpc = "cleanup"

\* C7 witness: 25 clips in batches of 10 were merged by three batch merges and
\* a final one, and the batch files are gone.
C7_Witness ==
    /\ mpc = "done"
    /\ Len(video_paths) = 25
    /\ batch_size = 10
    /\ Len(merge_calls) = 4
    /\ Len(final_clip) = 25

\* C8: concatenate_videoclips is never called with an empty list, and a run
\* without any clip does not end in an exception.
C8_NoEmptyMerge ==
    /\ \A k \in 1..Len(merge_calls) : merge_calls[k] # << >>
    /\ Sorted /\ video_paths = << >> => mpc # "crashed"

\* C9: a word that is not a lexicon key and whose base form is one is resolved
\* to the base form, without any call of get_synonym.
C9_BaseFormSkipsSynonym ==
    \A idx \in Indices :
      LET a == log[idx].attempts
      IN /\ ~InLexicon(NormalizedWord(idx))
         /\ Len(a) >= 2
         /\ a[2].strategy = "BASE_FORM"
         /\ InLexicon(a[2].key)
         => /\ log[idx].syn_calls = 0
            /\ log[idx].ctx_calls = 0
            /\ Len(a) = 2
            /\ Top(call_stack[idx]).word = a[2].key
            /\ Top(call_stack[idx]).is_base_form
            /\ task_step[idx] \in {"download", "process", "done"} =>
                 log[idx].key = a[2].key /\ log[idx].via = "BASE_FORM"
            /\ Done(idx) => future_result[idx] \in {None, DownloadPath(idx, a[2].key)}

\* C9 witness: "running" was resolved to its base form "run" and acquired.
C9_Witness ==
    \E idx \in Indices :
      /\ WordAt(idx) = W_running
      /\ Done(idx)
      /\ log[idx].via = "BASE_FORM"
      /\ log[idx].syn_calls = 0
      /\ future_result[idx] = DownloadPath(idx, W_run)

\* Caption word idx has a word before or after it.
HasNeighbour(idx) == idx > 0 \/ idx + 1 < NumTokens

\* C10: for a caption word with a neighbour, when the plain and the contextual
\* answer of the synonym service are both non-empty, the word looked up in the
\* lexicon is the first contextual synonym.
C10_ContextualSynonymWins ==
    \A idx \in Indices :
      /\ HasNeighbour(idx)
      /\ log[idx].syn # << >>
      => LET q == log[idx].syn[1]
         IN q.plain # << >> /\ q.contextual # << >> => q.candidate = q.contextual[1]

\* The exception of a task reached the main thread: the collecting loop was
\* left without sorting or merging anything.
Aborted == mpc \in {"raising", "aborted"}

\* C11: a failed morphology or synonym call counts as "no result": no task
\* ends with the exception of the call in place of an outcome, and the run is
\* never aborted by it.
C11_ServiceFailureNeverAborts ==
    /\ \A idx \in Indices : task_step[idx] # "raised"
    /\ ~Aborted

\* The synonym service gave task idx a synonym of its word.
SynonymObtained(idx) == log[idx].syn # << >> /\ log[idx].syn[1].plain # << >>

\* C12: a task that obtained a synonym which is no lexicon key has looked up
\* the base form of that synonym by the time it is done.
C12_BaseFormOfSynonymTried ==
    \A idx \in Indices :
      Done(idx) /\ SynonymObtained(idx) /\ ~InLexicon(log[idx].syn[1].candidate)
        => \E k \in 1..Len(log[idx].attempts) :
             log[idx].attempts[k].strategy = "BASE_OF_SYNONYM"

\* The entries of the key task idx matched.
Occurrences(idx) == check_word_in_asl_data(log[idx].key)

\* The positions of the entries of that key that have url, start and end.
Usable(idx) == {c \in 1..Len(Occurrences(idx)) : HasUrlAndSpan(Occurrences(idx)[c])}

\* C13: the candidates a task has tried are the first usable entries of its
\* key, in lexicon order and without a gap; only the last one tried may have
\* succeeded; a task that returns a clip stopped at the candidate that
\* succeeded, and a task whose acquisition failed has tried every usable entry.
C13_CandidatesInOrderUntilSuccess ==
    \A idx \in Indices :
      LET tried == log[idx].tried
      IN /\ tried # << >> => log[idx].key # None
         /\ \A k \in 1..Len(tried) :
              /\ tried[k].entry \in Usable(idx)
              /\ Cardinality({c \in Usable(idx) : c < tried[k].entry}) = k - 1
              /\ k < Len(tried) => ~tried[k].acquired
         /\ Done(idx) /\ future_result[idx] # None
              => /\ tried # << >>
                 /\ tried[Len(tried)].acquired
                 /\ future_result[idx] = DownloadPath(idx, log[idx].key)
         /\ AcquisitionFailed(idx)
              => /\ Len(tried) = Cardinality(Usable(idx))
                 /\ \A k \in 1..Len(tried) : ~tried[k].acquired

\* Two tasks are done with the key "run": one failed on the first entry and
\* took the third, skipping the second (no url); the other failed on both.
C13_Witness ==
    \E i, j \in Indices :
      /\ Done(i) /\ Done(j)
      /\ log[i].key = W_run /\ log[j].key = W_run
      /\ log[i].tried = <<[entry |-> 1, acquired |-> FALSE],
                          [entry |-> 3, acquired |-> TRUE]>>
      /\ log[j].tried = <<[entry |-> 1, acquired |-> FALSE],
                          [entry |-> 3, acquired |-> FALSE]>>
      /\ future_result[j] = None

\* The path the clip of task idx is returned at, once the task has a key.
FinalPath(idx) == DownloadPath(idx, log[idx].key)

\* C14: the final path of a clip holds a file only once the acquisition has
\* succeeded (the task returned that path), and after a failed acquisition
\* neither the final path nor the temporary path holds a file.
C14_NoPartialArtifactAtFinalPath ==
    \A idx \in Indices :
      log[idx].key # None =>
        /\ FinalPath(idx) \in files
             => Done(idx) /\ future_result[idx] = FinalPath(idx)
        /\ AcquisitionFailed(idx)
             => FinalPath(idx) \notin files /\ TempPath(FinalPath(idx)) \notin files

\* The main thread is sorting or merging, or has merged something.
Assembling == RunComplete \/ merge_calls # << >>

\* C15: sorting and merging start only after every task has finished and its
\* result has been read: while the main thread sorts or merges no task is
\* running or pending, and every clip a task returned is in video_paths.
C15_MergeAfterAllTasks ==
    Assembling =>
      /\ \A idx \in Indices : Done(idx) /\ ~Running(idx)
      /\ collected = NumTokens
      /\ \A idx \in Indices :
           future_result[idx] # None
             => \E k \in 1..Len(video_paths) : video_paths[k] = future_result[idx]

\* A batch has been merged after two tasks that finished in the reverse of the
\* order they were submitted in, each with a clip.
C15_Witness ==
    /\ merge_calls # << >>
    /\ completed = <<1, 0>>
    /\ \A idx \in Indices : future_result[idx] # None

\* The clips of batch n (from 0) of the batch loop.
BatchOf(n) == Batch(video_paths, n * batch_size, batch_size)

\* C16: for a batch of exactly one clip that the batch loop has dealt with,
\* the batch's file is the file of that clip, and no merge was called on the
\* one clip.
C16_SingleClipBatchNotMerged ==
    \A n \in 0..(batch_number - 1) :
      Len(BatchOf(n)) = 1 =>
        /\ batch_video_paths[n + 1] = BatchOf(n)[1]
        /\ merge_calls[n + 1] # <<VideoFileClip(BatchOf(n)[1])>>

\* C17: once a batch has been merged the files of its clips are gone: while a
\* later batch (or the final clip) is being merged, no clip of an earlier
\* batch is on disk.
C17_ClipsDeletedAfterBatchMerge ==
    mpc = "batch" =>
      \A n \in 0..(batch_number - 1) :
        \A k \in 1..Len(BatchOf(n)) : BatchOf(n)[k] \notin files

\* Task idx is inside the for loop, at the download or the transcode of a
\* candidate.
Acquiring(idx) == task_step[idx] \in {"download", "process"}

\* The files the acquisition task idx is at writes: the download goes to
\* download_path, the transcode to temp_path and, by os.replace, to
\* download_path.
WritePaths(idx) ==
    LET download_path == DownloadPath(idx, Top(call_stack[idx]).word)
    IN IF task_step[idx] = "download" THEN {download_path}
       ELSE IF task_step[idx] = "process" THEN {download_path, TempPath(download_path)}
       ELSE {}

\* C18: two tasks that are acquiring at the same time write no file in common,
\* also when they acquire the same key; and a task is at one candidate at a
\* time, the one after those it has tried.
C18_NoSharedWritePath ==
    /\ \A i, j \in Indices :
         i # j /\ Acquiring(i) /\ Acquiring(j) => WritePaths(i) \cap WritePaths(j) = {}
    /\ \A idx \in Indices :
         Acquiring(idx) =>
           LET tried == log[idx].tried
               settled == IF task_step[idx] = "process" THEN Len(tried) - 1
                          ELSE Len(tried)
           IN /\ \A k \in 1..settled : tried[k].entry < cand[idx]
              /\ task_step[idx] = "process" => tried[Len(tried)].entry = cand[idx]

\* Two tasks are transcoding a clip of the same key at the same time.
C18_Witness ==
    \E i, j \in Indices :
      /\ i # j
      /\ task_step[i] = "process" /\ task_step[j] = "process"
      /\ log[i].key = log[j].key

\* C19: every recursive call is made on a lexicon key: a call below the
\* top-level one has a word with lexicon entries, as has every call with
\* is_base_form or is_synonym set; no call is more than one level below the
\* top-level call; the fallback block (base form, synonym) is only ever
\* entered by the top-level call, with both flags unset.
C19_RecursionOnlyOnLexiconKeys ==
    \A idx \in Indices :
      LET stack == call_stack[idx]
      IN /\ Len(stack) <= 2
         /\ \A d \in 1..Len(stack) :
              /\ d >= 2 => InLexicon(stack[d].word)
              /\ stack[d].is_base_form \/ stack[d].is_synonym => InLexicon(stack[d].word)
              /\ d = 1 => ~stack[d].is_base_form /\ ~stack[d].is_synonym
              /\ d >= 2 => stack[d].is_base_form # stack[d].is_synonym
         /\ task_step[idx] \in {"base", "syn"} =>
              /\ Depth(idx) = 0
              /\ ~InLexicon(Top(stack).word)
         /\ \A k \in 1..Len(log[idx].attempts) :
              log[idx].attempts[k].strategy # "BASE_OF_SYNONYM"

\* One task is acquiring in the recursive call made on a base form, another in
\* the recursive call made on a synonym.
C19_Witness ==
    \E i, j \in Indices :
      /\ Depth(i) = 1 /\ Top(call_stack[i]).is_base_form /\ Acquiring(i)
      /\ Depth(j) = 1 /\ Top(call_stack[j]).is_synonym /\ Acquiring(j)

\* C20: from the moment a lookup of task idx finds a key, the task only
\* acquires on that key: no further lookup attempt and no further service call
\* is made, the task is in the for loop or done, and it ends with the clip of
\* that key or with no clip; in particular a key found as the base form is
\* never followed by a synonym lookup, whatever the downloads do.
C20_OutcomeDecidedByFoundKey ==
    \A idx \in Indices :
      log[idx].key # None =>
        LET a == log[idx].attempts
        IN /\ a # << >> /\ a[Len(a)].key = log[idx].key
           /\ a[Len(a)].strategy = log[idx].via
           /\ \A k \in 1..(Len(a) - 1) : ~InLexicon(a[k].key)
           /\ Acquiring(idx) \/ Done(idx)
           /\ Top(call_stack[idx]).word = log[idx].key
           /\ Done(idx) => future_result[idx] \in {None, FinalPath(idx)}
           /\ log[idx].via = "EXACT" => ServiceCalls(idx) = 0
           /\ log[idx].via = "BASE_FORM" =>
                log[idx].base_calls = 1 /\ log[idx].syn_calls = 0
           /\ log[idx].via = "SYNONYM" =>
                log[idx].base_calls = 1 /\ log[idx].syn_calls = 1

\* A task found the base form of its word in the lexicon, every candidate of
\* it failed, and the task is done without a clip and without a synonym call.
C20_Witness ==
    \E idx \in Indices :
      /\ AcquisitionFailed(idx)
      /\ log[idx].via = "BASE_FORM"
      /\ Len(log[idx].tried) = Cardinality(Usable(idx))
      /\ log[idx].syn_calls = 0

====
